---- MODULE Spec2Model ----
(***************************************************************************)
(* A model of pocket_stats/visualization.py: the dashboard that is built   *)
(* once from the cached article collection, and the reading-speed slider   *)
(* whose callback recomputes the reading-time chart and the total reading  *)
(* time text.                                                              *)
(*                                                                         *)
(* Text is a sequence of one-character strings, so that formatting is      *)
(* modelled by the characters it produces.  A float is the exact rational  *)
(* [num, den] it approximates; int() truncates it toward zero.             *)
(***************************************************************************)
EXTENDS Integers, Sequences, FiniteSets, TLC

VARIABLES
    data,       \* the module-level article collection (line 18)
    pc,         \* "loaded" | "recomputing" | "idle" | "error"
    value,      \* the slider's value property (component 'reading-speed')
    arg,        \* the reading_speed the pending callback is invoked with
    chart,      \* figure property of component 'reading-time'
    needed,     \* children property of component 'reading-time-needed'
    locals,     \* locals of the last get_reading_time_needed call
    layout,     \* the static regions: favorite text and domain chart
    limit_in,   \* the limit a direct call of domain_counts_plot is given
    first       \* history: the outputs of one earlier callback invocation

vars == <<data, pc, value, arg, chart, needed, locals, layout, limit_in, first>>

(***************************************************************************)
(* Bounds of the model.                                                    *)
(***************************************************************************)
MaxArticles == 2
MaxLayoutArticles == 3
MaxLimit == 2

(***************************************************************************)
(* Program constants.                                                      *)
(***************************************************************************)
DEFAULT_READING_SPEED == 200
DefaultLimit == 20
SliderMin == 1
SliderStep == 10
MarkStep == 100
UNREAD == 0
ARCHIVED == 1

None == "None"

(***************************************************************************)
(* Text.                                                                   *)
(***************************************************************************)
DigitChar(d) ==
    CASE d = 0 -> "0" [] d = 1 -> "1" [] d = 2 -> "2" [] d = 3 -> "3"
      [] d = 4 -> "4" [] d = 5 -> "5" [] d = 6 -> "6" [] d = 7 -> "7"
      [] d = 8 -> "8" [] d = 9 -> "9"

RECURSIVE NatStr(_)
NatStr(n) == IF n < 10 THEN <<DigitChar(n)>>
             ELSE NatStr(n \div 10) \o <<DigitChar(n % 10)>>

\* str() of an integer, as an f-string renders it
IntStr(n) == IF n < 0 THEN <<"-">> \o NatStr(-n) ELSE NatStr(n)

\* int(x) of the float num/den: truncation toward zero
PyInt(num, den) ==
    IF den = 0 THEN 0
    ELSE LET n == IF den < 0 THEN -num ELSE num
             d == IF den < 0 THEN -den ELSE den
         IN  IF n >= 0 THEN n \div d ELSE -((-n) \div d)

RECURSIVE SumSeq(_)
SumSeq(s) == IF s = <<>> THEN 0 ELSE Head(s) + SumSeq(Tail(s))

(***************************************************************************)
(* The aggregation helpers imported from the data module.                  *)
(***************************************************************************)
\* a filter is a triple <<field, operator, value>>; only "=" is exercised
Passes(article, filters) ==
    \A i \in 1..Len(filters) :
        filters[i][2] = "=" => article[filters[i][1]] = filters[i][3]

ApplyFilters(d, filters) == SelectSeq(d, LAMBDA a : Passes(a, filters))

get_word_counts(d, filters) ==
    LET kept == ApplyFilters(d, filters)
    IN  [i \in 1..Len(kept) |-> kept[i].word_count]

\* words / speed per article, each the rational [num, den]
get_reading_time(d, reading_speed, filters) ==
    LET w == get_word_counts(d, filters)
    IN  [i \in 1..Len(w) |-> [num |-> w[i], den |-> reading_speed]]

\* the favorited articles and their share of the collection, a rational
get_favorite_count(d) ==
    LET c == Len(SelectSeq(d, LAMBDA a : a.favorite = 1))
    IN  [count |-> c, percent |-> [num |-> c, den |-> Len(d)]]

RECURSIVE BumpCount(_, _)
BumpCount(pairs, dom) ==
    IF pairs = <<>> THEN <<[domain |-> dom, count |-> 1]>>
    ELSE IF Head(pairs).domain = dom
         THEN <<[domain |-> dom, count |-> Head(pairs).count + 1]>> \o Tail(pairs)
         ELSE <<Head(pairs)>> \o BumpCount(Tail(pairs), dom)

RECURSIVE CountDomains(_, _)
CountDomains(kept, acc) ==
    IF kept = <<>> THEN acc
    ELSE CountDomains(Tail(kept), BumpCount(acc, Head(kept).domain))

\* a dict domain -> count, as its items in insertion order
get_domain_counts(d, filters) == CountDomains(ApplyFilters(d, filters), <<>>)

\* dict.get(key, 0)
DictGet(pairs, dom) ==
    IF \E i \in 1..Len(pairs) : pairs[i].domain = dom
    THEN (CHOOSE p \in {pairs[i] : i \in 1..Len(pairs)} : p.domain = dom).count
    ELSE 0

(***************************************************************************)
(* Reading time.                                                           *)
(***************************************************************************)
EmptyFigure == [traces |-> <<>>, xaxis_speed |-> 0, barmode |-> None]

\* faulty variant: the archived series filtered like the unread one
get_reading_time_chart_same_filter(reading_speed) ==
    [traces |-> <<
        [name |-> "Unread articles",
         x |-> get_reading_time(data, reading_speed, <<<<"status", "=", UNREAD>>>>)],
        [name |-> "Archived articles",
         x |-> get_reading_time(data, reading_speed, <<<<"status", "=", UNREAD>>>>)] >>,
     xaxis_speed |-> reading_speed,
     barmode |-> "stack"]

get_reading_time_chart(reading_speed) ==
    [traces |-> <<
        [name |-> "Unread articles",
         x |-> get_reading_time(data, reading_speed, <<<<"status", "=", UNREAD>>>>)],
        [name |-> "Archived articles",
         x |-> get_reading_time(data, reading_speed, <<<<"status", "=", ARCHIVED>>>>)] >>,
     xaxis_speed |-> reading_speed,
     barmode |-> "stack"]

\* faulty variant: the speed multiplied in, not divided by
reading_time_total_minutes_times(reading_speed) ==
    SumSeq(get_word_counts(data, <<<<"status", "=", UNREAD>>>>)) * reading_speed

\* faulty variant: the status filter left out
reading_time_total_minutes_unfiltered(reading_speed) ==
    LET x == get_reading_time(data, reading_speed, <<>>)
    IN  PyInt(SumSeq([i \in 1..Len(x) |-> x[i].num]), reading_speed)

\* line 103: int(sum(...)) of the unread reading times, which share a denominator
reading_time_total_minutes(reading_speed) ==
    LET x == get_reading_time(data, reading_speed, <<<<"status", "=", UNREAD>>>>)
    IN  PyInt(SumSeq([i \in 1..Len(x) |-> x[i].num]), reading_speed)

\* faulty variant: hours not reduced modulo 24
reading_time_split_no_mod(total_minutes) ==
    [total_minutes |-> total_minutes,
     days    |-> PyInt(PyInt(total_minutes, 24), 60),
     hours   |-> PyInt(total_minutes, 60),
     minutes |-> total_minutes % 60]

\* line 104
reading_time_split(total_minutes) ==
    [total_minutes |-> total_minutes,
     days    |-> PyInt(PyInt(total_minutes, 24), 60),
     hours   |-> PyInt(total_minutes, 60) % 24,
     minutes |-> total_minutes % 60]

STR_days == <<" ", "d", "a", "y", "s">>
STR_hours == <<" ", "h", "o", "u", "r", "s">>
STR_minutes == <<" ", "m", "i", "n", "u", "t", "e", "s">>

\* faulty variant: minutes appended when >= 0
reading_time_text_zero_minutes(l) ==
    LET a0 == <<>>
        a1 == IF l.days > 0 THEN a0 \o <<" ">> \o IntStr(l.days) \o STR_days ELSE a0
        a2 == IF l.hours > 0 THEN a1 \o <<" ">> \o IntStr(l.hours) \o STR_hours ELSE a1
        a3 == IF l.minutes >= 0 THEN a2 \o <<" ">> \o IntStr(l.minutes) \o STR_minutes ELSE a2
    IN  a3

\* lines 105-111
reading_time_text(l) ==
    LET a0 == <<>>
        a1 == IF l.days > 0 THEN a0 \o <<" ">> \o IntStr(l.days) \o STR_days ELSE a0
        a2 == IF l.hours > 0 THEN a1 \o <<" ">> \o IntStr(l.hours) \o STR_hours ELSE a1
        a3 == IF l.minutes > 0 THEN a2 \o <<" ">> \o IntStr(l.minutes) \o STR_minutes ELSE a2
    IN  a3

\* faulty variant: ans kept across calls, each call appending to the text shown
get_reading_time_needed_appending(reading_speed) ==
    needed \o reading_time_text(reading_time_split(reading_time_total_minutes(reading_speed)))

get_reading_time_needed(reading_speed) ==
    reading_time_text(reading_time_split(reading_time_total_minutes(reading_speed)))

\* faulty variant: the text computed for the default speed, not the slider's
update_reading_time_components_default(reading_speed) ==
    <<get_reading_time_chart(reading_speed),
      get_reading_time_needed(DEFAULT_READING_SPEED)>>

update_reading_time_components(reading_speed) ==
    <<get_reading_time_chart(reading_speed), get_reading_time_needed(reading_speed)>>

\* faulty variant: the slider starts at 0
reading_time_plot_min_zero ==
    LET max_reading_speed == DEFAULT_READING_SPEED * 3
    IN  [marks |-> {i \in MarkStep..(max_reading_speed - 1) : i % MarkStep = 0},
         min |-> 0, max |-> max_reading_speed, step |-> SliderStep,
         value |-> DEFAULT_READING_SPEED,
         needed |-> <<>>, figure |-> EmptyFigure]

\* the slider that reading_time_plot declares
reading_time_plot ==
    LET max_reading_speed == DEFAULT_READING_SPEED * 3
    IN  [marks |-> {i \in MarkStep..(max_reading_speed - 1) : i % MarkStep = 0},
         min |-> SliderMin, max |-> max_reading_speed, step |-> SliderStep,
         value |-> DEFAULT_READING_SPEED,
         needed |-> <<>>, figure |-> EmptyFigure]

\* the values the slider can take: its step grid from min, its marks, its ends
SliderValues ==
    LET s == reading_time_plot
    IN  {v \in s.min..s.max :
            (v - s.min) % s.step = 0 \/ v \in s.marks \/ v = s.max}

NoLocals == [total_minutes |-> -1, days |-> -1, hours |-> -1, minutes |-> -1]
EmptyBars == [y |-> <<>>, unread |-> <<>>, archived |-> <<>>, barmode |-> None]
NoLayout == [favorite |-> <<>>, domain |-> EmptyBars, built |-> {}]
NoFirst == [speed |-> 0, chart |-> EmptyFigure, needed |-> <<>>, again |-> FALSE]

(***************************************************************************)
(* Domains.                                                                *)
(***************************************************************************)
\* list.sort(key=lambda p: -p[1]): stable, so equal counts keep their order
RECURSIVE InsertByKey(_, _)
InsertByKey(sorted, p) ==
    IF sorted = <<>> THEN <<p>>
    ELSE IF -Head(sorted).count <= -p.count
         THEN <<Head(sorted)>> \o InsertByKey(Tail(sorted), p)
         ELSE <<p>> \o sorted

RECURSIVE SortDescByCount(_)
SortDescByCount(pairs) ==
    IF pairs = <<>> THEN <<>>
    ELSE InsertByKey(SortDescByCount(SubSeq(pairs, 1, Len(pairs) - 1)),
                     pairs[Len(pairs)])

\* s[:n]
PySliceTo(s, n) ==
    IF n >= 0 THEN SubSeq(s, 1, IF n < Len(s) THEN n ELSE Len(s))
    ELSE SubSeq(s, 1, IF Len(s) + n > 0 THEN Len(s) + n ELSE 0)

Reverse(s) == [i \in 1..Len(s) |-> s[Len(s) + 1 - i]]

\* faulty variant: the pairs truncated without being sorted
domain_counts_plot_unsorted(d, limit) ==
    LET top_pairs == Reverse(PySliceTo(get_domain_counts(d, <<>>), limit))
        top_domains == [i \in 1..Len(top_pairs) |-> top_pairs[i].domain]
        unread_domain_cnts == get_domain_counts(d, <<<<"status", "=", UNREAD>>>>)
        archived_domain_cnts == get_domain_counts(d, <<<<"status", "=", ARCHIVED>>>>)
    IN  [y |-> top_domains,
         unread |-> [i \in 1..Len(top_domains) |-> DictGet(unread_domain_cnts, top_domains[i])],
         archived |-> [i \in 1..Len(top_domains) |-> DictGet(archived_domain_cnts, top_domains[i])],
         barmode |-> "stack"]

domain_counts_plot(d, limit) ==
    LET top_pairs == Reverse(PySliceTo(SortDescByCount(get_domain_counts(d, <<>>)), limit))
        top_domains == [i \in 1..Len(top_pairs) |-> top_pairs[i].domain]
        unread_domain_cnts == get_domain_counts(d, <<<<"status", "=", UNREAD>>>>)
        archived_domain_cnts == get_domain_counts(d, <<<<"status", "=", ARCHIVED>>>>)
    IN  [y |-> top_domains,
         unread |-> [i \in 1..Len(top_domains) |-> DictGet(unread_domain_cnts, top_domains[i])],
         archived |-> [i \in 1..Len(top_domains) |-> DictGet(archived_domain_cnts, top_domains[i])],
         barmode |-> "stack"]

(***************************************************************************)
(* Favorites.                                                              *)
(***************************************************************************)
\* the hundredths nearest to num/den, a tie going to the even one
RoundHalfEven(num, den) ==
    LET q == num \div den
        r == num % den
    IN  IF 2 * r > den \/ (2 * r = den /\ q % 2 = 1) THEN q + 1 ELSE q

\* '%.2f' % (num/den), num/den >= 0
Format2f(num, den) ==
    LET h == RoundHalfEven(100 * num, den)
    IN  NatStr(h \div 100) \o <<".">> \o
        <<DigitChar((h \div 10) % 10), DigitChar(h % 10)>>

STR_articles == <<" ", "a", "r", "t", "i", "c", "l", "e", "s", " ", "(">>
STR_percent == <<" ", "%", ")">>

\* faulty variant: the fraction shown without the factor 100
favorite_count_plot_fraction(d) ==
    LET res == get_favorite_count(d)
    IN  IntStr(res.count) \o STR_articles \o
        Format2f(res.percent.num, res.percent.den) \o STR_percent

favorite_count_plot(d) ==
    LET res == get_favorite_count(d)
    IN  IntStr(res.count) \o STR_articles \o
        Format2f(100 * res.percent.num, res.percent.den) \o STR_percent

(***************************************************************************)
(* Article collections.                                                    *)
(***************************************************************************)
WordCounts == {0, 30, 1440, 18000}
ArchivedWordCounts == {30}
Domains == {"a.com", "b.org", "c.net"}

Article(st, w, f, dom) ==
    [status |-> st, word_count |-> w, favorite |-> f, domain |-> dom]

SeqsUpTo(S, n) == UNION {[1..k -> S] : k \in 1..n}

ReadingArticles ==
    {Article(UNREAD, w, 0, "a.com") : w \in WordCounts} \cup
    {Article(ARCHIVED, w, 1, "b.org") : w \in ArchivedWordCounts}

ReadingData == SeqsUpTo(ReadingArticles, MaxArticles)

LayoutArticles ==
    {Article(st, 90, f, dom) : st \in {UNREAD, ARCHIVED}, f \in {0, 1}, dom \in Domains}

LayoutData == SeqsUpTo(LayoutArticles, MaxLayoutArticles)

PureData ==
    { <<Article(UNREAD, 18000, 0, "a.com"), Article(ARCHIVED, 30, 1, "b.org")>>,
      <<Article(UNREAD, 1440, 0, "a.com"), Article(UNREAD, 30, 0, "a.com")>>,
      <<Article(UNREAD, 0, 0, "a.com"), Article(UNREAD, 18000, 0, "a.com")>>,
      <<Article(ARCHIVED, 30, 1, "b.org")>> }

(***************************************************************************)
(* The dashboard.                                                          *)
(***************************************************************************)
Init ==
    /\ data \in ReadingData
    /\ pc = "loaded"
    /\ value = 0
    /\ arg = 0
    /\ chart = EmptyFigure
    /\ needed = <<>>
    /\ locals = NoLocals
    /\ layout = NoLayout
    /\ limit_in = DefaultLimit
    /\ first = NoFirst

\* lines 201-207; the page then loads and the callback is invoked once with
\* the slider's initial value
BuildLayout ==
    /\ pc = "loaded"
    /\ value' = reading_time_plot.value
    /\ needed' = reading_time_plot.needed
    /\ chart' = reading_time_plot.figure
    /\ arg' = reading_time_plot.value
    /\ pc' = "recomputing"
    /\ layout' = [favorite |-> favorite_count_plot(data),
                  domain |-> domain_counts_plot(data, DefaultLimit),
                  built |-> {"favorite", "domain"}]
    /\ UNCHANGED <<data, locals, limit_in, first>>

\* the user moves the slider
ChangeSpeed(v) ==
    /\ pc = "idle"
    /\ v # value
    /\ value' = v
    /\ arg' = v
    /\ pc' = "recomputing"
    /\ UNCHANGED <<data, chart, needed, locals, layout, limit_in, first>>

\* update_reading_time_components(arg); a speed of 0 raises ZeroDivisionError
Callback ==
    /\ pc = "recomputing"
    /\ IF arg = 0
         THEN /\ pc' = "error"
              /\ UNCHANGED <<chart, needed, locals>>
         ELSE /\ chart' = update_reading_time_components(arg)[1]
              /\ needed' = update_reading_time_components(arg)[2]
              /\ locals' = reading_time_split(reading_time_total_minutes(arg))
              /\ pc' = "idle"
    /\ first' = IF first.speed = arg THEN [first EXCEPT !.again = TRUE] ELSE first
    /\ UNCHANGED <<data, value, arg, layout, limit_in>>

Next ==
    \/ BuildLayout
    \/ \E v \in SliderValues : ChangeSpeed(v)
    \/ Callback

Spec == Init /\ [][Next]_vars

(***************************************************************************)
(* The same dashboard with a history variable: one callback invocation at  *)
(* the slider's minimum, initial value or maximum, chosen freely, leaves   *)
(* its speed and its outputs in first.                                     *)
(***************************************************************************)
InitPure == Init /\ data \in PureData

RecordedSpeeds ==
    {reading_time_plot.min, reading_time_plot.value, reading_time_plot.max}

CallbackRecorded ==
    /\ pc = "recomputing"
    /\ arg # 0
    /\ arg \in RecordedSpeeds
    /\ first = NoFirst
    /\ chart' = update_reading_time_components(arg)[1]
    /\ needed' = update_reading_time_components(arg)[2]
    /\ locals' = reading_time_split(reading_time_total_minutes(arg))
    /\ first' = [speed |-> arg, chart |-> chart', needed |-> needed', again |-> FALSE]
    /\ pc' = "idle"
    /\ UNCHANGED <<data, value, arg, layout, limit_in>>

NextPure ==
    \/ Next
    \/ CallbackRecorded

SpecPure == InitPure /\ [][NextPure]_vars

(***************************************************************************)
(* The static regions as functions of the collection: favorite_count_plot  *)
(* and domain_counts_plot applied to collections that vary in the          *)
(* favorite flag, the domain and the status, and to a range of limits.     *)
(***************************************************************************)
InitLayout ==
    /\ data \in LayoutData
    /\ limit_in \in 0..MaxLimit
    /\ pc = "loaded"
    /\ value = 0
    /\ arg = 0
    /\ chart = EmptyFigure
    /\ needed = <<>>
    /\ locals = NoLocals
    /\ layout = NoLayout
    /\ first = NoFirst

CallFavoriteCountPlot ==
    /\ pc = "loaded"
    /\ "favorite" \notin layout.built
    /\ layout' = [layout EXCEPT !.favorite = favorite_count_plot(data),
                                !.built = @ \cup {"favorite"}]
    /\ UNCHANGED <<data, pc, value, arg, chart, needed, locals, limit_in, first>>

CallDomainCountsPlot ==
    /\ pc = "loaded"
    /\ "domain" \notin layout.built
    /\ layout' = [layout EXCEPT !.domain = domain_counts_plot(data, limit_in),
                                !.built = @ \cup {"domain"}]
    /\ UNCHANGED <<data, pc, value, arg, chart, needed, locals, limit_in, first>>

NextLayout ==
    \/ CallFavoriteCountPlot
    \/ CallDomainCountsPlot

SpecLayout == InitLayout /\ [][NextLayout]_vars

(***************************************************************************)
(* Reference definitions for the properties: computed from the collection  *)
(* alone, without the operators above.                                     *)
(***************************************************************************)
Indices(d, P(_)) == {i \in 1..Len(d) : P(d[i])}

RECURSIVE SumWords(_, _)
SumWords(d, st) ==
    IF d = <<>> THEN 0
    ELSE (IF Head(d).status = st THEN Head(d).word_count ELSE 0) + SumWords(Tail(d), st)

\* sub occurs in text at position i
OccursAt(text, sub, i) ==
    /\ i + Len(sub) - 1 <= Len(text)
    /\ \A k \in 1..Len(sub) : text[i + k - 1] = sub[k]

Contains(text, sub) == \E i \in 1..Len(text) : OccursAt(text, sub, i)

\* the first position of sub in text, 0 when it does not occur
IndexOf(text, sub) ==
    IF Contains(text, sub)
    THEN CHOOSE i \in 1..Len(text) :
            OccursAt(text, sub, i) /\ \A j \in 1..(i - 1) : ~OccursAt(text, sub, j)
    ELSE 0

UnitPart(n, unit) == IF n > 0 THEN <<" ">> \o NatStr(n) \o unit ELSE <<>>

DurationText(t) ==
    UnitPart(t \div 1440, STR_days) \o UnitPart((t \div 60) % 24, STR_hours)
        \o UnitPart(t % 60, STR_minutes)

Ran == locals # NoLocals

(***************************************************************************)
(* C1: whenever the dashboard is idle, the chart and the total reading     *)
(* time text are both the ones of the slider's current value, and a        *)
(* pending recomputation is always for the slider's current value.         *)
(***************************************************************************)
C1_OutputsOfLastSpeed ==
    /\ pc = "recomputing" => arg = value
    /\ pc = "idle" =>
        /\ chart.xaxis_speed = value
        /\ \A t \in 1..Len(chart.traces) :
              \A j \in 1..Len(chart.traces[t].x) : chart.traces[t].x[j].den = value
        /\ needed = DurationText(SumWords(data, UNREAD) \div value)

C1_Witness ==
    /\ pc = "idle"
    /\ value = 11
    /\ chart.xaxis_speed = 11
    /\ needed # <<>>

(***************************************************************************)
(* C2: the text holds the days part iff days > 0, the hours part iff       *)
(* hours > 0, the minutes part iff minutes > 0, in that order, and is      *)
(* empty exactly when the three are zero.                                  *)
(***************************************************************************)
C2_UnitsShownIffPositive ==
    (pc = "idle" /\ Ran) =>
        /\ Contains(needed, STR_days) <=> locals.days > 0
        /\ Contains(needed, STR_hours) <=> locals.hours > 0
        /\ Contains(needed, STR_minutes) <=> locals.minutes > 0
        /\ (locals.days > 0 /\ locals.hours > 0) =>
              IndexOf(needed, STR_days) < IndexOf(needed, STR_hours)
        /\ (locals.days > 0 /\ locals.minutes > 0) =>
              IndexOf(needed, STR_days) < IndexOf(needed, STR_minutes)
        /\ (locals.hours > 0 /\ locals.minutes > 0) =>
              IndexOf(needed, STR_hours) < IndexOf(needed, STR_minutes)
        /\ ~Contains(needed, <<" ", "0", " ">>)
        /\ needed = <<>> <=>
              (locals.days = 0 /\ locals.hours = 0 /\ locals.minutes = 0)

C2_Witness ==
    /\ pc = "idle"
    /\ locals.days > 0
    /\ locals.hours = 0
    /\ locals.minutes > 0
    /\ Contains(needed, STR_days)
    /\ ~Contains(needed, STR_hours)

(***************************************************************************)
(* C3: days, hours and minutes decompose the total: days*1440 + hours*60   *)
(* + minutes = total, 0 <= hours < 24, 0 <= minutes < 60; a total of 90    *)
(* is 0 days, 1 hour, 30 minutes and reads " 1 hours 30 minutes".          *)
(***************************************************************************)
C3_Decomposition ==
    (pc = "idle" /\ Ran) =>
        /\ locals.total_minutes >= 0
        /\ locals.days * 1440 + locals.hours * 60 + locals.minutes = locals.total_minutes
        /\ locals.days >= 0
        /\ locals.hours \in 0..23
        /\ locals.minutes \in 0..59
        /\ locals.total_minutes = 90 =>
              /\ locals.days = 0 /\ locals.hours = 1 /\ locals.minutes = 30
              /\ needed = <<" ", "1", " ", "h", "o", "u", "r", "s",
                            " ", "3", "0", " ", "m", "i", "n", "u", "t", "e", "s">>

C3_Witness ==
    /\ pc = "idle"
    /\ value = DEFAULT_READING_SPEED
    /\ locals.total_minutes = 90

(***************************************************************************)
(* C4: the callback is only ever invoked with a speed in 1 .. 3 * default, *)
(* it never fails, and the total it computes is never negative.            *)
(***************************************************************************)
C4_SpeedInRange ==
    /\ pc # "error"
    /\ pc \in {"recomputing", "idle"} => arg \in 1..(3 * DEFAULT_READING_SPEED)
    /\ (pc = "idle" /\ Ran) => locals.total_minutes >= 0

C4_Witness ==
    /\ pc = "idle"
    /\ arg = 3 * DEFAULT_READING_SPEED
    /\ chart.xaxis_speed = arg
    /\ locals.total_minutes > 0

(***************************************************************************)
(* C5: a recomputation at a higher speed than the displayed one yields a   *)
(* total that is no larger, and at a lower speed one that is no smaller.   *)
(***************************************************************************)
C5_Step ==
    (pc = "recomputing" /\ pc' = "idle" /\ Ran) =>
        /\ chart.xaxis_speed < arg => locals'.total_minutes <= locals.total_minutes
        /\ arg < chart.xaxis_speed => locals'.total_minutes >= locals.total_minutes

C5_TotalNonIncreasing == [][C5_Step]_vars

C5_Witness ==
    /\ pc = "idle"
    /\ chart.xaxis_speed = 3 * DEFAULT_READING_SPEED
    /\ locals.total_minutes > 0
    /\ locals.total_minutes < SumWords(data, UNREAD) \div DEFAULT_READING_SPEED

(***************************************************************************)
(* C6: the unread and the archived series partition the collection: for    *)
(* every reading time, the two series together hold it as often as the     *)
(* collection has articles of that reading time.                           *)
(***************************************************************************)
SameTime(x, w, s) == x.num * s = w * x.den

TimesIn(xs, w, s) == Cardinality({j \in 1..Len(xs) : SameTime(xs[j], w, s)})

C6_SeriesPartition ==
    pc = "idle" =>
        /\ Len(chart.traces) = 2
        /\ chart.traces[1].name # chart.traces[2].name
        /\ Len(chart.traces[1].x) + Len(chart.traces[2].x) = Len(data)
        /\ Len(chart.traces[1].x) = Cardinality(Indices(data, LAMBDA a : a.status = UNREAD))
        /\ Len(chart.traces[2].x) = Cardinality(Indices(data, LAMBDA a : a.status = ARCHIVED))
        /\ \A i \in 1..Len(data) :
              TimesIn(chart.traces[1].x, data[i].word_count, value)
                + TimesIn(chart.traces[2].x, data[i].word_count, value)
              = Cardinality(Indices(data, LAMBDA a : a.word_count = data[i].word_count))

C6_Witness ==
    /\ pc = "idle"
    /\ Len(chart.traces) = 2
    /\ Len(chart.traces[1].x) = 1
    /\ Len(chart.traces[2].x) = 1
    /\ data[1].word_count = data[2].word_count
    /\ data[1].word_count > 0

(***************************************************************************)
(* C7: no step changes the collection, and a callback invoked again with   *)
(* the speed of a recorded earlier invocation shows the recorded outputs,  *)
(* whatever the slider did in between.                                     *)
(***************************************************************************)
C7_SameOutputs ==
    (pc = "idle" /\ first.speed = value) =>
        (chart = first.chart /\ needed = first.needed)

C8_UnreadOnly ==
    (pc = "idle" /\ Ran) =>
        /\ locals.total_minutes = SumWords(data, UNREAD) \div value
        /\ (SumWords(data, UNREAD) = 0 /\ value = DEFAULT_READING_SPEED) => needed = <<>>

C8_Witness ==
    /\ pc = "idle"
    /\ value = DEFAULT_READING_SPEED
    /\ SumWords(data, UNREAD) = 0
    /\ SumWords(data, ARCHIVED) > 0
    /\ needed = <<>>

(***************************************************************************)
(* C9: the favorite text is "<count> articles (<p> %)" where count is the  *)
(* number of favorited articles and p, with two decimals, is the           *)
(* hundredth nearest to 100 * count / total.                               *)
(***************************************************************************)
FavoriteCount == Cardinality(Indices(data, LAMBDA a : a.favorite = 1))

Abs(x) == IF x < 0 THEN -x ELSE x

TwoDecimals(h) ==
    NatStr(h \div 100) \o <<".">> \o NatStr((h \div 10) % 10) \o NatStr(h % 10)

C9_FavoritePercent ==
    "favorite" \in layout.built =>
        \E h \in {(10000 * FavoriteCount) \div Len(data),
                   (10000 * FavoriteCount) \div Len(data) + 1} :
            /\ 2 * Abs(h * Len(data) - 10000 * FavoriteCount) <= Len(data)
            /\ layout.favorite =
                  NatStr(FavoriteCount) \o STR_articles \o TwoDecimals(h) \o STR_percent

C9_Witness ==
    /\ "favorite" \in layout.built
    /\ Len(data) = 3
    /\ FavoriteCount = 2
    /\ layout.favorite = <<"2">> \o STR_articles \o <<"6", "6", ".", "6", "7">> \o STR_percent

(***************************************************************************)
(* C10: the domain chart shows at most limit domains, none of the omitted  *)
(* ones has a larger total than a shown one, the shown ones are in         *)
(* ascending order of total, and each one's unread and archived bars add   *)
(* up to its total.                                                        *)
(***************************************************************************)
DomainTotal(dom) == Cardinality(Indices(data, LAMBDA a : a.domain = dom))

DomainsOf(d) == {d[i].domain : i \in 1..Len(d)}

Shown == {layout.domain.y[i] : i \in 1..Len(layout.domain.y)}

C10_TopDomains ==
    "domain" \in layout.built =>
        LET fig == layout.domain IN
        /\ Len(fig.y) <= limit_in
        /\ Cardinality(Shown) = Len(fig.y)
        /\ Shown \subseteq DomainsOf(data)
        /\ Len(fig.unread) = Len(fig.y) /\ Len(fig.archived) = Len(fig.y)
        /\ \A o \in DomainsOf(data) \ Shown :
              /\ Len(fig.y) = limit_in
              /\ \A sh \in Shown : DomainTotal(o) <= DomainTotal(sh)
        /\ \A i, j \in 1..Len(fig.y) :
              i < j => DomainTotal(fig.y[i]) <= DomainTotal(fig.y[j])
        /\ \A i \in 1..Len(fig.y) :
              fig.unread[i] + fig.archived[i] = DomainTotal(fig.y[i])

C10_Witness ==
    /\ "domain" \in layout.built
    /\ limit_in = 1
    /\ Len(layout.domain.y) = 1
    /\ \E o \in DomainsOf(data) \ Shown : DomainTotal(o) < DomainTotal(layout.domain.y[1])
    /\ layout.domain.unread[1] > 0
    /\ layout.domain.archived[1] > 0

====
